---- MODULE Spec2Model ----
(***************************************************************************)
(* Model of backend/secure_server.py: the WebSocket relay between a client *)
(* and the upstream realtime endpoint.                                     *)
(*                                                                         *)
(* The server is one asyncio event loop.  The code between two awaits of   *)
(* a coroutine runs without interleaving, so every action below is one     *)
(* such stretch of a coroutine (a connection handler, one of its two       *)
(* forwarding pumps, the janitor), or one event of the environment (a      *)
(* client or the upstream sending or closing, the clock advancing).        *)
(*                                                                         *)
(* A connection is numbered by its arrival; the uuid4 session id that      *)
(* create_session draws is modelled by that number, which is never used    *)
(* twice, as a uuid4 is not.                                               *)
(***************************************************************************)
EXTENDS Integers, Sequences, FiniteSets, TLC

\* ---- program constants (src/backend/secure_server.py) ----
MAX_CONNECTIONS_PER_USER == 3
MAX_REQUESTS_PER_MINUTE == 60
RATE_LIMIT_WINDOW == 60
CLEANUP_INTERVAL == 300
STALE_AGE == 3600
POLICY_VIOLATION == 1008
NORMAL_CLOSURE == 1000

\* ---- bounds of the model ----
NumConns == MAX_CONNECTIONS_PER_USER + 1
MaxTicks == 2
MaxClientFrames == 2
MaxAzureFrames == 2
MaxCalls == 5

Conns == 1..NumConns
BurstSizes == {1, 59}
FrameKinds == {"text", "bytes"}
ConnectErrors == {"InvalidStatusCode", "OSError"}

\* The Authorization header of a connection: "<scheme> <token>", or none.
Headers ==
    { [scheme |-> "Bearer", token |-> "u1"],
      [scheme |-> "Bearer", token |-> "u2"],
      [scheme |-> "Bearer", token |-> ""],
      [scheme |-> "none", token |-> ""] }

VARIABLES
    now,              \* datetime.now(), in seconds
    ticks,            \* number of clock advances so far (model bound)
    sessions,         \* dict session_id -> record
    user_connections, \* defaultdict user_id -> set of session ids
    user_requests,    \* defaultdict user_id -> list of timestamps
    pc,               \* where each connection handler stands
    user_id,          \* handler local user_id ("" before authentication)
    session_id,       \* handler local session_id (0 is None)
    error,            \* the exception the handler caught ("" if none)
    pump_c2a,         \* proxy_client_to_azure: "none", "running", "sent", "closed", "error"
    pump_a2c,         \* proxy_azure_to_client: the same
    client_state,     \* client websocket: "open", "client_closed", "server_closed"
    azure_state,      \* upstream websocket: "none", "open", "peer_closed", "closed"
    close_code,       \* code of the handler's first websocket.close call (0: none yet)
    connect_attempted,\* websockets.connect was called by the handler
    client_sent,      \* frames the client has sent, in order
    c2a_taken,        \* how many of them the pump has taken
    azure_rx,         \* frames delivered to the upstream, in order
    azure_sent,       \* frames the upstream has sent, in order
    a2c_taken,        \* how many of them the pump has taken
    client_rx,        \* messages delivered to the client, in order
    reported,         \* message count logged at teardown (-1: no stats line)
    janitor_slept_at, \* time at which the janitor's current sleep began
    janitor_removed,  \* session ids the janitor has cleaned up
    removals,         \* per session id, how often its record was deleted
    cleanup_raised,   \* a cleanup_session call raised
    admitted,         \* per user, timestamps of all allowed admissions
    rl_last,          \* result of the latest check_rate_limit call
    rl_calls          \* number of direct check_rate_limit bursts (model bound)

vars == << now, ticks, sessions, user_connections, user_requests, pc, user_id,
           session_id, error, pump_c2a, pump_a2c, client_state, azure_state,
           close_code, connect_attempted, client_sent, c2a_taken, azure_rx,
           azure_sent, a2c_taken, client_rx, reported, janitor_slept_at,
           janitor_removed, removals, cleanup_raised, admitted, rl_last, rl_calls >>

\* ---- dictionaries ----
Put(d, k, v) == [x \in (DOMAIN d) \cup {k} |-> IF x = k THEN v ELSE d[x]]
Del(d, k) == [x \in (DOMAIN d) \ {k} |-> d[x]]
\* defaultdict(set)[k] and defaultdict(list)[k]: reading a missing key inserts it
Touch(d, k, dflt) == IF k \in DOMAIN d THEN d ELSE Put(d, k, dflt)
GetOr(d, k, dflt) == IF k \in DOMAIN d THEN d[k] ELSE dflt

\* ---- authenticate_user ----
AuthenticateUser(headers, conn) ==
    IF headers.scheme = "Bearer"
    THEN headers.token
    ELSE "anonymous-" \o ToString(conn)

\* ---- create_session ----
CreateSession(ss, uc, uid, sid, t) ==
    [ sessions |-> Put(ss, sid, [ user_id |-> uid, created_at |-> t,
                                  azure_ws |-> "None", client_ws |-> "None",
                                  message_count |-> 0 ]),
      user_connections |-> Put(uc, uid, GetOr(uc, uid, {}) \cup {sid}) ]

\* ---- cleanup_session ----
\* The body as it would be without the discard from the user's set
CleanupBodyNoDiscard(ss, uc, sid) ==
    IF sid \in DOMAIN ss
    THEN [ sessions |-> Del(ss, sid), user_connections |-> uc,
           removed |-> TRUE, raised |-> FALSE ]
    ELSE [ sessions |-> ss, user_connections |-> uc,
           removed |-> FALSE, raised |-> TRUE ]

\* The body as it would be if it cleared the user's whole set
CleanupBodyClearsUser(ss, uc, sid) ==
    IF sid \in DOMAIN ss
    THEN [ sessions |-> Del(ss, sid),
           user_connections |-> Put(uc, ss[sid].user_id, {}),
           removed |-> TRUE, raised |-> FALSE ]
    ELSE [ sessions |-> ss, user_connections |-> uc,
           removed |-> FALSE, raised |-> TRUE ]

\* The body under the guard; on an id that is absent sessions[session_id]
\* raises KeyError and nothing is changed.
CleanupBody(ss, uc, sid) ==
    IF sid \in DOMAIN ss
    THEN [ sessions |-> Del(ss, sid),
           user_connections |->
               Put(uc, ss[sid].user_id, GetOr(uc, ss[sid].user_id, {}) \ {sid}),
           removed |-> TRUE, raised |-> FALSE ]
    ELSE [ sessions |-> ss, user_connections |-> uc,
           removed |-> FALSE, raised |-> TRUE ]

\* cleanup_session as it would be without its membership guard
CleanupSessionUnguarded(ss, uc, sid) == CleanupBody(ss, uc, sid)

CleanupSession(ss, uc, sid) ==
    IF sid \in DOMAIN ss
    THEN CleanupBody(ss, uc, sid)
    ELSE [ sessions |-> ss, user_connections |-> uc,
           removed |-> FALSE, raised |-> FALSE ]

\* ---- check_rate_limit ----
\* The request log as it would be if expired entries were never dropped
FreshKeepsAll(log, t) == log

Fresh(log, t) == SelectSeq(log, LAMBDA ts : t - ts < RATE_LIMIT_WINDOW)

\* check_rate_limit as it would be if it recorded the request before it
\* tested the rate
CheckRateLimitAppendFirst(uc, ur, uid, t) ==
    LET uc1 == Touch(uc, uid, {}) IN
    IF Cardinality(uc1[uid]) >= MAX_CONNECTIONS_PER_USER
    THEN [ allowed |-> FALSE, reason |-> "connections",
           user_connections |-> uc1, user_requests |-> ur ]
    ELSE LET kept == Fresh(GetOr(ur, uid, << >>), t) IN
         IF Len(kept) >= MAX_REQUESTS_PER_MINUTE
         THEN [ allowed |-> FALSE, reason |-> "rate",
                user_connections |-> uc1,
                user_requests |-> Put(ur, uid, Append(kept, t)) ]
         ELSE [ allowed |-> TRUE, reason |-> "OK",
                user_connections |-> uc1,
                user_requests |-> Put(ur, uid, Append(kept, t)) ]

\* check_rate_limit with > in place of >= in both comparisons
CheckRateLimitOffByOne(uc, ur, uid, t) ==
    LET uc1 == Touch(uc, uid, {}) IN
    IF Cardinality(uc1[uid]) > MAX_CONNECTIONS_PER_USER
    THEN [ allowed |-> FALSE, reason |-> "connections",
           user_connections |-> uc1, user_requests |-> ur ]
    ELSE LET kept == Fresh(GetOr(ur, uid, << >>), t) IN
         IF Len(kept) > MAX_REQUESTS_PER_MINUTE
         THEN [ allowed |-> FALSE, reason |-> "rate",
                user_connections |-> uc1, user_requests |-> Put(ur, uid, kept) ]
         ELSE [ allowed |-> TRUE, reason |-> "OK",
                user_connections |-> uc1,
                user_requests |-> Put(ur, uid, Append(kept, t)) ]

CheckRateLimit(uc, ur, uid, t) ==
    LET uc1 == Touch(uc, uid, {}) IN
    IF Cardinality(uc1[uid]) >= MAX_CONNECTIONS_PER_USER
    THEN [ allowed |-> FALSE, reason |-> "connections",
           user_connections |-> uc1, user_requests |-> ur ]
    ELSE LET kept == Fresh(GetOr(ur, uid, << >>), t) IN
         IF Len(kept) >= MAX_REQUESTS_PER_MINUTE
         THEN [ allowed |-> FALSE, reason |-> "rate",
                user_connections |-> uc1, user_requests |-> Put(ur, uid, kept) ]
         ELSE [ allowed |-> TRUE, reason |-> "OK",
                user_connections |-> uc1,
                user_requests |-> Put(ur, uid, Append(kept, t)) ]

\* ---- periodic_cleanup: the stale scan ----
\* The scan as it would be with the sleep interval taken for the age limit
StaleSessionsByInterval(ss, t) ==
    { sid \in DOMAIN ss : t - ss[sid].created_at > CLEANUP_INTERVAL }

StaleSessions(ss, t) == { sid \in DOMAIN ss : t - ss[sid].created_at > STALE_AGE }

\* ---- initial state ----
\* The request log left by a burst of MAX_REQUESTS_PER_MINUTE short-lived
\* connections of one user at time 0 that have all been torn down again.
FullLog == [i \in 1..MAX_REQUESTS_PER_MINUTE |-> 0]

InitCommon ==
    /\ now = 0
    /\ ticks = 0
    /\ sessions = << >>
    /\ pc = [h \in Conns |-> "idle"]
    /\ user_id = [h \in Conns |-> ""]
    /\ session_id = [h \in Conns |-> 0]
    /\ error = [h \in Conns |-> ""]
    /\ pump_c2a = [h \in Conns |-> "none"]
    /\ pump_a2c = [h \in Conns |-> "none"]
    /\ client_state = [h \in Conns |-> "open"]
    /\ azure_state = [h \in Conns |-> "none"]
    /\ close_code = [h \in Conns |-> 0]
    /\ connect_attempted = [h \in Conns |-> FALSE]
    /\ client_sent = [h \in Conns |-> << >>]
    /\ c2a_taken = [h \in Conns |-> 0]
    /\ azure_rx = [h \in Conns |-> << >>]
    /\ azure_sent = [h \in Conns |-> << >>]
    /\ a2c_taken = [h \in Conns |-> 0]
    /\ client_rx = [h \in Conns |-> << >>]
    /\ reported = [h \in Conns |-> -1]
    /\ janitor_slept_at = 0
    /\ janitor_removed = {}
    /\ removals = [h \in Conns |-> 0]
    /\ cleanup_raised = FALSE
    /\ rl_last = [user |-> "", allowed |-> FALSE, reason |-> ""]
    /\ rl_calls = 0

Init ==
    /\ InitCommon
    /\ user_connections = << >>
    /\ user_requests = << >>
    /\ admitted = << >>


\* ---- websocket.close(code) on the client connection ----
\* close() is a no-op on a connection that is already closed.
CloseClient(st) == IF st = "open" THEN "server_closed" ELSE st
FirstCode(old, code) == IF old = 0 THEN code ELSE old

\* A forwarded frame and the structured error payload, as the client or the
\* upstream sees them.
Frame(kind, n) == [kind |-> kind, id |-> n, error |-> ""]
ErrorPayload(e) == [kind |-> "error", id |-> 0, error |-> e]

\* The rejection as it would be with a plain websocket.close()
RejectPlainClose(h, uid) ==
    /\ pc' = [pc EXCEPT ![h] = "finally"]
    /\ user_id' = [user_id EXCEPT ![h] = uid]
    /\ close_code' = [close_code EXCEPT ![h] = FirstCode(@, NORMAL_CLOSURE)]
    /\ client_state' = [client_state EXCEPT ![h] = CloseClient(@)]
    /\ UNCHANGED << sessions, session_id, connect_attempted, admitted >>

\* ---- handle_client_connection, lines 191-213: up to the await of connect ----
\* authenticate_user, check_rate_limit and create_session are plain calls: no
\* await separates them.  A rejection awaits websocket.close(1008, ...) and
\* returns into the finally block.
Reject(h, uid) ==
    /\ pc' = [pc EXCEPT ![h] = "finally"]
    /\ user_id' = [user_id EXCEPT ![h] = uid]
    /\ close_code' = [close_code EXCEPT ![h] = FirstCode(@, POLICY_VIOLATION)]
    /\ client_state' = [client_state EXCEPT ![h] = CloseClient(@)]
    /\ UNCHANGED << sessions, session_id, connect_attempted, admitted >>

Admit(h, uid, r) ==
    LET c == CreateSession(sessions, r.user_connections, uid, h, now) IN
    /\ sessions' = [c.sessions EXCEPT ![h].client_ws = "ws"]
    /\ user_connections' = c.user_connections
    /\ user_requests' = r.user_requests
    /\ admitted' = Put(admitted, uid, Append(GetOr(admitted, uid, << >>), now))
    /\ rl_last' = [user |-> uid, allowed |-> TRUE, reason |-> r.reason]
    /\ session_id' = [session_id EXCEPT ![h] = h]
    /\ user_id' = [user_id EXCEPT ![h] = uid]
    /\ connect_attempted' = [connect_attempted EXCEPT ![h] = TRUE]
    /\ pc' = [pc EXCEPT ![h] = "connecting"]
    /\ UNCHANGED << close_code, client_state >>

HandlerStart(h, headers) ==
    /\ pc[h] = "idle"
    /\ \A g \in Conns : g < h => pc[g] # "idle"
    /\ LET uid == AuthenticateUser(headers, h) IN
       IF uid = ""
       THEN /\ Reject(h, uid)
            /\ UNCHANGED << user_connections, user_requests, rl_last >>
       ELSE LET r == CheckRateLimit(user_connections, user_requests, uid, now) IN
            IF r.allowed
            THEN Admit(h, uid, r)
            ELSE /\ Reject(h, uid)
                 /\ user_connections' = r.user_connections
                 /\ user_requests' = r.user_requests
                 /\ rl_last' = [user |-> uid, allowed |-> FALSE, reason |-> r.reason]
    /\ UNCHANGED << now, ticks, error, pump_c2a, pump_a2c, azure_state,
                    client_sent, c2a_taken, azure_rx, azure_sent, a2c_taken,
                    client_rx, reported, janitor_slept_at, janitor_removed,
                    removals, cleanup_raised, rl_calls >>

\* ---- lines 215-232: the upstream handshake completes ----
\* sessions[session_id]['azure_ws'] = azure_ws raises KeyError when the record
\* is gone; the async with block then closes the upstream connection and the
\* handler lands in "except Exception".  Otherwise both pumps are started.
ConnectOK(h) ==
    /\ pc[h] = "connecting"
    /\ IF session_id[h] \in DOMAIN sessions
       THEN /\ sessions' = [sessions EXCEPT ![session_id[h]].azure_ws = "ws"]
            /\ azure_state' = [azure_state EXCEPT ![h] = "open"]
            /\ pump_c2a' = [pump_c2a EXCEPT ![h] = "running"]
            /\ pump_a2c' = [pump_a2c EXCEPT ![h] = "running"]
            /\ pc' = [pc EXCEPT ![h] = "streaming"]
            /\ UNCHANGED error
       ELSE /\ azure_state' = [azure_state EXCEPT ![h] = "closed"]
            /\ error' = [error EXCEPT ![h] = "KeyError"]
            /\ pc' = [pc EXCEPT ![h] = "except"]
            /\ UNCHANGED << sessions, pump_c2a, pump_a2c >>
    /\ UNCHANGED << now, ticks, user_connections, user_requests, user_id,
                    session_id, client_state, close_code, connect_attempted,
                    client_sent, c2a_taken, azure_rx, azure_sent, a2c_taken,
                    client_rx, reported, janitor_slept_at, janitor_removed,
                    removals, cleanup_raised, admitted, rl_last, rl_calls >>

\* ---- the upstream handshake fails: websockets.connect raises ----
ConnectFail(h, e) ==
    /\ pc[h] = "connecting"
    /\ error' = [error EXCEPT ![h] = e]
    /\ pc' = [pc EXCEPT ![h] = "except"]
    /\ UNCHANGED << now, ticks, sessions, user_connections, user_requests,
                    user_id, session_id, pump_c2a, pump_a2c, client_state,
                    azure_state, close_code, connect_attempted, client_sent,
                    c2a_taken, azure_rx, azure_sent, a2c_taken, client_rx,
                    reported, janitor_slept_at, janitor_removed, removals,
                    cleanup_raised, admitted, rl_last, rl_calls >>

\* The except blocks as they would be without the send
ExceptNoSend(h) ==
    /\ pc[h] = "except"
    /\ pc' = [pc EXCEPT ![h] = "finally"]
    /\ UNCHANGED << now, ticks, sessions, user_connections, user_requests,
                    user_id, session_id, error, pump_c2a, pump_a2c,
                    client_state, azure_state, close_code, connect_attempted,
                    client_sent, c2a_taken, azure_rx, azure_sent, a2c_taken,
                    client_rx, reported, janitor_slept_at, janitor_removed,
                    removals, cleanup_raised, admitted, rl_last, rl_calls >>

\* ---- lines 234-251: both except blocks send one error payload ----
\* websocket.send raises on a closed connection; the bare except swallows it.
ExceptSend(h) ==
    /\ pc[h] = "except"
    /\ client_rx' = [client_rx EXCEPT ![h] =
           IF client_state[h] = "open" THEN Append(@, ErrorPayload(error[h])) ELSE @]
    /\ pc' = [pc EXCEPT ![h] = "finally"]
    /\ UNCHANGED << now, ticks, sessions, user_connections, user_requests,
                    user_id, session_id, error, pump_c2a, pump_a2c,
                    client_state, azure_state, close_code, connect_attempted,
                    client_sent, c2a_taken, azure_rx, azure_sent, a2c_taken,
                    reported, janitor_slept_at, janitor_removed, removals,
                    cleanup_raised, admitted, rl_last, rl_calls >>

\* ---- lines 252-263: the finally block ----
Finally(h) ==
    /\ pc[h] = "finally"
    /\ IF session_id[h] # 0
       THEN LET c == CleanupSession(sessions, user_connections, session_id[h]) IN
            /\ reported' = [reported EXCEPT ![h] =
                   IF session_id[h] \in DOMAIN sessions
                   THEN sessions[session_id[h]].message_count ELSE @]
            /\ sessions' = c.sessions
            /\ user_connections' = c.user_connections
            /\ removals' = [removals EXCEPT ![session_id[h]] =
                   IF c.removed THEN @ + 1 ELSE @]
            /\ cleanup_raised' = (cleanup_raised \/ c.raised)
       ELSE UNCHANGED << reported, sessions, user_connections, removals,
                         cleanup_raised >>
    /\ close_code' = [close_code EXCEPT ![h] = FirstCode(@, NORMAL_CLOSURE)]
    /\ client_state' = [client_state EXCEPT ![h] = CloseClient(@)]
    /\ pc' = [pc EXCEPT ![h] = "done"]
    /\ UNCHANGED << now, ticks, user_requests, user_id, session_id, error,
                    pump_c2a, pump_a2c, azure_state, connect_attempted,
                    client_sent, c2a_taken, azure_rx, azure_sent, a2c_taken,
                    client_rx, janitor_slept_at, janitor_removed, admitted,
                    rl_last, rl_calls >>


\* proxy_client_to_azure as it would be with the count raised for every frame
PumpClientToAzureCountsAll(h) ==
    /\ pc[h] = "streaming"
    /\ pump_c2a[h] = "running"
    /\ IF c2a_taken[h] < Len(client_sent[h])
       THEN LET m == client_sent[h][c2a_taken[h] + 1] IN
            /\ c2a_taken' = [c2a_taken EXCEPT ![h] = @ + 1]
            /\ IF azure_state[h] # "open"
               THEN /\ pump_c2a' = [pump_c2a EXCEPT ![h] = "closed"]
                    /\ UNCHANGED << azure_rx, sessions >>
               ELSE /\ azure_rx' = [azure_rx EXCEPT ![h] = Append(@, m)]
                    /\ pump_c2a' = [pump_c2a EXCEPT ![h] = "sent"]
                    /\ UNCHANGED sessions
       ELSE /\ client_state[h] # "open"
            /\ pump_c2a' = [pump_c2a EXCEPT ![h] = "closed"]
            /\ UNCHANGED << c2a_taken, azure_rx, sessions >>
    /\ UNCHANGED << now, ticks, user_connections, user_requests, pc, user_id,
                    session_id, error, pump_a2c, client_state, azure_state,
                    close_code, connect_attempted, client_sent, azure_sent,
                    a2c_taken, client_rx, reported, janitor_slept_at,
                    janitor_removed, removals, cleanup_raised, admitted,
                    rl_last, rl_calls >>

\* ---- proxy_client_to_azure: one turn of the loop, up to the send ----
\* The pump takes the next frame of the client, or ConnectionClosed once the
\* client has closed and nothing is left to read; azure_ws.send raises
\* ConnectionClosed on a closed upstream.  await azure_ws.send writes the
\* frame and may suspend: a pump that has sent a text frame is "sent" until
\* it resumes at the count (CountMessage below); after a binary frame it
\* resumes at the top of the loop.
PumpClientToAzure(h) ==
    /\ pc[h] = "streaming"
    /\ pump_c2a[h] = "running"
    /\ IF c2a_taken[h] < Len(client_sent[h])
       THEN LET m == client_sent[h][c2a_taken[h] + 1] IN
            /\ c2a_taken' = [c2a_taken EXCEPT ![h] = @ + 1]
            /\ IF azure_state[h] # "open"
               THEN /\ pump_c2a' = [pump_c2a EXCEPT ![h] = "closed"]
                    /\ UNCHANGED << azure_rx, sessions >>
               ELSE /\ azure_rx' = [azure_rx EXCEPT ![h] = Append(@, m)]
                    /\ pump_c2a' = [pump_c2a EXCEPT ![h] =
                           IF m.kind = "text" THEN "sent" ELSE @]
                    /\ UNCHANGED sessions
       ELSE /\ client_state[h] # "open"
            /\ pump_c2a' = [pump_c2a EXCEPT ![h] = "closed"]
            /\ UNCHANGED << c2a_taken, azure_rx, sessions >>
    /\ UNCHANGED << now, ticks, user_connections, user_requests, pc, user_id,
                    session_id, error, pump_a2c, client_state, azure_state,
                    close_code, connect_attempted, client_sent, azure_sent,
                    a2c_taken, client_rx, reported, janitor_slept_at,
                    janitor_removed, removals, cleanup_raised, admitted,
                    rl_last, rl_calls >>

\* ---- proxy_client_to_azure, line 157: the count after the send ----
\* sessions[session_id]['message_count'] += 1 raises KeyError when the record
\* is gone; 'except Exception' logs it and the pump returns.
CountMessage(h) ==
    /\ pc[h] = "streaming"
    /\ pump_c2a[h] = "sent"
    /\ IF session_id[h] \in DOMAIN sessions
       THEN /\ sessions' = [sessions EXCEPT ![session_id[h]].message_count = @ + 1]
            /\ pump_c2a' = [pump_c2a EXCEPT ![h] = "running"]
       ELSE /\ pump_c2a' = [pump_c2a EXCEPT ![h] = "error"]
            /\ UNCHANGED sessions
    /\ UNCHANGED << now, ticks, user_connections, user_requests, pc, user_id,
                    session_id, error, pump_a2c, client_state, azure_state,
                    close_code, connect_attempted, client_sent, c2a_taken,
                    azure_rx, azure_sent, a2c_taken, client_rx, reported,
                    janitor_slept_at, janitor_removed, removals,
                    cleanup_raised, admitted, rl_last, rl_calls >>

\* proxy_azure_to_client as it would be without its branch for bytes
PumpAzureToClientTextOnly(h) ==
    /\ pc[h] = "streaming"
    /\ pump_a2c[h] = "running"
    /\ IF a2c_taken[h] < Len(azure_sent[h])
       THEN LET m == azure_sent[h][a2c_taken[h] + 1] IN
            /\ a2c_taken' = [a2c_taken EXCEPT ![h] = @ + 1]
            /\ IF m.kind # "text"
               THEN UNCHANGED << pump_a2c, client_rx >>
               ELSE IF client_state[h] # "open"
                    THEN /\ pump_a2c' = [pump_a2c EXCEPT ![h] = "closed"]
                         /\ UNCHANGED client_rx
                    ELSE /\ client_rx' = [client_rx EXCEPT ![h] = Append(@, m)]
                         /\ UNCHANGED pump_a2c
       ELSE /\ azure_state[h] # "open"
            /\ pump_a2c' = [pump_a2c EXCEPT ![h] = "closed"]
            /\ UNCHANGED << a2c_taken, client_rx >>
    /\ UNCHANGED << now, ticks, sessions, user_connections, user_requests, pc,
                    user_id, session_id, error, pump_c2a, client_state,
                    azure_state, close_code, connect_attempted, client_sent,
                    c2a_taken, azure_rx, azure_sent, reported, janitor_slept_at,
                    janitor_removed, removals, cleanup_raised, admitted,
                    rl_last, rl_calls >>

\* ---- proxy_azure_to_client: one turn of the loop ----
PumpAzureToClient(h) ==
    /\ pc[h] = "streaming"
    /\ pump_a2c[h] = "running"
    /\ IF a2c_taken[h] < Len(azure_sent[h])
       THEN LET m == azure_sent[h][a2c_taken[h] + 1] IN
            /\ a2c_taken' = [a2c_taken EXCEPT ![h] = @ + 1]
            /\ IF client_state[h] # "open"
               THEN /\ pump_a2c' = [pump_a2c EXCEPT ![h] = "closed"]
                    /\ UNCHANGED client_rx
               ELSE /\ client_rx' = [client_rx EXCEPT ![h] = Append(@, m)]
                    /\ UNCHANGED pump_a2c
       ELSE /\ azure_state[h] # "open"
            /\ pump_a2c' = [pump_a2c EXCEPT ![h] = "closed"]
            /\ UNCHANGED << a2c_taken, client_rx >>
    /\ UNCHANGED << now, ticks, sessions, user_connections, user_requests, pc,
                    user_id, session_id, error, pump_c2a, client_state,
                    azure_state, close_code, connect_attempted, client_sent,
                    c2a_taken, azure_rx, azure_sent, reported, janitor_slept_at,
                    janitor_removed, removals, cleanup_raised, admitted,
                    rl_last, rl_calls >>

\* ---- asyncio.gather returns once BOTH pumps have returned ----
\* Leaving the async with block closes the upstream connection.
GatherReturns(h) ==
    /\ pc[h] = "streaming"
    /\ pump_c2a[h] \in {"closed", "error"}
    /\ pump_a2c[h] \in {"closed", "error"}
    /\ azure_state' = [azure_state EXCEPT ![h] = IF @ = "open" THEN "closed" ELSE @]
    /\ pc' = [pc EXCEPT ![h] = "finally"]
    /\ UNCHANGED << now, ticks, sessions, user_connections, user_requests,
                    user_id, session_id, error, pump_c2a, pump_a2c,
                    client_state, close_code, connect_attempted, client_sent,
                    c2a_taken, azure_rx, azure_sent, a2c_taken, client_rx,
                    reported, janitor_slept_at, janitor_removed, removals,
                    cleanup_raised, admitted, rl_last, rl_calls >>

\* ---- periodic_cleanup: one turn of the loop, after its sleep ----
RECURSIVE CleanupAll(_, _, _)
CleanupAll(ss, uc, sids) ==
    IF sids = {}
    THEN [sessions |-> ss, user_connections |-> uc, raised |-> FALSE]
    ELSE LET sid == CHOOSE x \in sids : TRUE
             c == CleanupSession(ss, uc, sid)
             rest == CleanupAll(c.sessions, c.user_connections, sids \ {sid})
         IN [rest EXCEPT !.raised = @ \/ c.raised]

PeriodicCleanup ==
    /\ now - janitor_slept_at >= CLEANUP_INTERVAL
    /\ LET stale == StaleSessions(sessions, now)
           c == CleanupAll(sessions, user_connections, stale)
       IN /\ sessions' = c.sessions
          /\ user_connections' = c.user_connections
          /\ janitor_removed' = janitor_removed \cup stale
          /\ removals' = [h \in Conns |-> IF h \in stale THEN removals[h] + 1
                                                       ELSE removals[h]]
          /\ cleanup_raised' = (cleanup_raised \/ c.raised)
    /\ janitor_slept_at' = now
    /\ UNCHANGED << now, ticks, user_requests, pc, user_id, session_id, error,
                    pump_c2a, pump_a2c, client_state, azure_state, close_code,
                    connect_attempted, client_sent, c2a_taken, azure_rx,
                    azure_sent, a2c_taken, client_rx, reported, admitted,
                    rl_last, rl_calls >>

\* ---- the environment ----
RECURSIVE TotalLen(_, _)
TotalLen(f, S) ==
    IF S = {} THEN 0
    ELSE LET x == CHOOSE y \in S : TRUE IN Len(f[x]) + TotalLen(f, S \ {x})

\* The client's socket exists from the handler's start until the handler's
\* websocket.close() of line 261 has run: the client may send or close also
\* while the handler is suspended on its way through the finally block.
Connected(h) == pc[h] \in {"connecting", "except", "streaming", "finally"}

ClientSend(h, kind) ==
    /\ Connected(h)
    /\ client_state[h] = "open"
    /\ TotalLen(client_sent, Conns) < MaxClientFrames
    /\ client_sent' = [client_sent EXCEPT ![h] = Append(@, Frame(kind, Len(@) + 1))]
    /\ UNCHANGED << now, ticks, sessions, user_connections, user_requests, pc,
                    user_id, session_id, error, pump_c2a, pump_a2c,
                    client_state, azure_state, close_code, connect_attempted,
                    c2a_taken, azure_rx, azure_sent, a2c_taken, client_rx,
                    reported, janitor_slept_at, janitor_removed, removals,
                    cleanup_raised, admitted, rl_last, rl_calls >>

ClientClose(h) ==
    /\ Connected(h)
    /\ client_state[h] = "open"
    /\ client_state' = [client_state EXCEPT ![h] = "client_closed"]
    /\ UNCHANGED << now, ticks, sessions, user_connections, user_requests, pc,
                    user_id, session_id, error, pump_c2a, pump_a2c,
                    azure_state, close_code, connect_attempted, client_sent,
                    c2a_taken, azure_rx, azure_sent, a2c_taken, client_rx,
                    reported, janitor_slept_at, janitor_removed, removals,
                    cleanup_raised, admitted, rl_last, rl_calls >>

AzureSend(h, kind) ==
    /\ azure_state[h] = "open"
    /\ TotalLen(azure_sent, Conns) < MaxAzureFrames
    /\ azure_sent' = [azure_sent EXCEPT ![h] = Append(@, Frame(kind, Len(@) + 1))]
    /\ UNCHANGED << now, ticks, sessions, user_connections, user_requests, pc,
                    user_id, session_id, error, pump_c2a, pump_a2c,
                    client_state, azure_state, close_code, connect_attempted,
                    client_sent, c2a_taken, azure_rx, a2c_taken, client_rx,
                    reported, janitor_slept_at, janitor_removed, removals,
                    cleanup_raised, admitted, rl_last, rl_calls >>

AzureClose(h) ==
    /\ azure_state[h] = "open"
    /\ azure_state' = [azure_state EXCEPT ![h] = "peer_closed"]
    /\ UNCHANGED << now, ticks, sessions, user_connections, user_requests, pc,
                    user_id, session_id, error, pump_c2a, pump_a2c,
                    client_state, close_code, connect_attempted, client_sent,
                    c2a_taken, azure_rx, azure_sent, a2c_taken, client_rx,
                    reported, janitor_slept_at, janitor_removed, removals,
                    cleanup_raised, admitted, rl_last, rl_calls >>

Tick(d) ==
    /\ ticks < MaxTicks
    /\ now' = now + d
    /\ ticks' = ticks + 1
    /\ UNCHANGED << sessions, user_connections, user_requests, pc, user_id,
                    session_id, error, pump_c2a, pump_a2c, client_state,
                    azure_state, close_code, connect_attempted, client_sent,
                    c2a_taken, azure_rx, azure_sent, a2c_taken, client_rx,
                    reported, janitor_slept_at, janitor_removed, removals,
                    cleanup_raised, admitted, rl_last, rl_calls >>

\* ---- check_rate_limit called n times in a row at one instant ----
\* k counts the calls allowed so far, last is the result of the latest call.
RECURSIVE CallN(_, _, _, _, _, _, _)
CallN(uc, ur, uid, t, n, k, last) ==
    IF n = 0
    THEN [ user_connections |-> uc, user_requests |-> ur, allowed_calls |-> k,
           allowed |-> last.allowed, reason |-> last.reason ]
    ELSE LET r == CheckRateLimit(uc, ur, uid, t) IN
         IF r.allowed
         THEN CallN(r.user_connections, r.user_requests, uid, t, n - 1, k + 1, r)
         ELSE CallN(r.user_connections, r.user_requests, uid, t, n - 1, k, r)

RateCalls(uid, n) ==
    /\ rl_calls < MaxCalls
    /\ LET r == CallN(user_connections, user_requests, uid, now, n, 0,
                      [allowed |-> FALSE, reason |-> ""])
       IN /\ user_connections' = r.user_connections
          /\ user_requests' = r.user_requests
          /\ admitted' = Put(admitted, uid, GetOr(admitted, uid, << >>)
                                             \o [i \in 1..r.allowed_calls |-> now])
          /\ rl_last' = [user |-> uid, allowed |-> r.allowed, reason |-> r.reason]
    /\ rl_calls' = rl_calls + 1
    /\ UNCHANGED << now, ticks, sessions, pc, user_id, session_id, error,
                    pump_c2a, pump_a2c, client_state, azure_state, close_code,
                    connect_attempted, client_sent, c2a_taken, azure_rx,
                    azure_sent, a2c_taken, client_rx, reported,
                    janitor_slept_at, janitor_removed, removals,
                    cleanup_raised >>

\* ---- the relay of one connection, with traffic in both directions ----
RelayConns == {1}
RelaySteps == {STALE_AGE}

Next ==
    \/ \E h \in RelayConns, headers \in Headers : HandlerStart(h, headers)
    \/ \E h \in Conns : ConnectOK(h)
    \/ \E h \in Conns, e \in ConnectErrors : ConnectFail(h, e)
    \/ \E h \in Conns : ExceptSend(h)
    \/ \E h \in Conns : PumpClientToAzure(h)
    \/ \E h \in Conns : CountMessage(h)
    \/ \E h \in Conns : PumpAzureToClient(h)
    \/ \E h \in Conns : GatherReturns(h)
    \/ \E h \in Conns : Finally(h)
    \/ PeriodicCleanup
    \/ \E h \in Conns, kind \in FrameKinds : ClientSend(h, kind)
    \/ \E h \in Conns : ClientClose(h)
    \/ \E h \in Conns, kind \in FrameKinds : AzureSend(h, kind)
    \/ \E h \in Conns : AzureClose(h)
    \/ \E d \in RelaySteps : Tick(d)

Spec == Init /\ [][Next]_vars

\* ---- admission of concurrent connections ----
\* One connection more than a user may hold, no traffic on the connections.
\* Every connection is u1's or fails authentication; the first one may
\* instead be another user's or anonymous.
AdmitHeaders ==
    { [scheme |-> "Bearer", token |-> "u1"], [scheme |-> "Bearer", token |-> ""] }
AdmitSteps == {STALE_AGE}

InitAdmit ==
    /\ InitCommon
    /\ \/ /\ user_connections = << >>
          /\ user_requests = << >>
          /\ admitted = << >>
       \/ /\ user_connections = [u \in {"u1"} |-> {}]
          /\ user_requests = [u \in {"u1"} |-> FullLog]
          /\ admitted = [u \in {"u1"} |-> FullLog]

NextAdmit ==
    \/ \E h \in Conns, headers \in AdmitHeaders : HandlerStart(h, headers)
    \/ \E headers \in Headers \ AdmitHeaders : HandlerStart(1, headers)
    \/ \E h \in Conns : ConnectOK(h)
    \/ \E h \in Conns : ConnectFail(h, "InvalidStatusCode")
    \/ \E h \in Conns : ExceptSend(h)
    \/ \E h \in Conns : Finally(h)
    \/ PeriodicCleanup
    \/ \E d \in AdmitSteps : Tick(d)

SpecAdmit == InitAdmit /\ [][NextAdmit]_vars

\* ---- the rate limiter called on its own ----
RateUsers == {"u1"}
RateSteps == {30, STALE_AGE}

NextRate ==
    \/ \E uid \in RateUsers, n \in BurstSizes : RateCalls(uid, n)
    \/ \E d \in RateSteps : Tick(d)

SpecRate == Init /\ [][NextRate]_vars

\* ---- the janitor against sessions of different ages ----
\* Two connections of one user that stay open, and a clock that moves by the
\* janitor's sleep interval or by the age limit.
SweepConns == {1, 2}
SweepHeaders == { [scheme |-> "Bearer", token |-> "u1"] }
SweepSteps == {CLEANUP_INTERVAL, STALE_AGE}

NextSweep ==
    \/ \E h \in SweepConns, headers \in SweepHeaders : HandlerStart(h, headers)
    \/ \E h \in Conns : ConnectOK(h)
    \/ \E h \in Conns : ConnectFail(h, "InvalidStatusCode")
    \/ \E h \in Conns : ExceptSend(h)
    \/ \E h \in Conns : Finally(h)
    \/ PeriodicCleanup
    \/ \E d \in SweepSteps : Tick(d)

SpecSweep == Init /\ [][NextSweep]_vars

\* ---- clients that close while the upstream stays open ----
\* One connection more than a user may hold, all of one user, with no frames
\* and no clock: either peer of a connection may close it.
CloseHeaders == { [scheme |-> "Bearer", token |-> "u1"] }

NextClose ==
    \/ \E h \in Conns, headers \in CloseHeaders : HandlerStart(h, headers)
    \/ \E h \in Conns : ConnectOK(h)
    \/ \E h \in Conns : PumpClientToAzure(h)
    \/ \E h \in Conns : PumpAzureToClient(h)
    \/ \E h \in Conns : GatherReturns(h)
    \/ \E h \in Conns : Finally(h)
    \/ \E h \in Conns : ClientClose(h)
    \/ \E h \in Conns : AzureClose(h)

SpecClose == Init /\ [][NextClose]_vars

\* ---- a deployment whose AZURE_ENDPOINT lacks the https:// scheme ----
\* validate_azure_config only requires AZURE_ENDPOINT and AZURE_API_KEY to be
\* non-empty.  build_azure_websocket_url rewrites a leading https:// to wss://
\* and leaves any other endpoint as it is; the URL is a sequence of its parts.
API_VERSION == "2024-10-01-preview"
AZURE_DEPLOYMENT == "gpt-realtime"
ApiKeys == {"key-A", "key-B"}
EndpointNoScheme == [scheme |-> "", host |-> "example.openai.azure.com"]

BuildAzureWebsocketUrl(endpoint, key) ==
    << IF endpoint.scheme = "https://" THEN "wss://" ELSE endpoint.scheme,
       endpoint.host, "/", "openai/realtime",
       "?api-version=", API_VERSION,
       "&deployment=", AZURE_DEPLOYMENT,
       "&api-key=", key >>

\* The 'error' field of the payload the except blocks send.  For a handshake
\* status it is built from e.status_code; for any other exception it is
\* str(e), and websockets.connect(url) rejects a URL whose scheme is not ws
\* or wss with InvalidURI, whose text is "<url> isn't a valid URI: ...".
ErrorText(e, url) ==
    CASE e = "InvalidStatusCode" -> << "Failed to connect to Azure: ", "status_code" >>
      [] e = "InvalidURI" -> url \o << " isn't a valid URI" >>
      [] OTHER -> << e >>

NextNoScheme ==
    \/ \E h \in Conns, headers \in AdmitHeaders : HandlerStart(h, headers)
    \/ \E h \in Conns : ConnectFail(h, "InvalidURI")
    \/ \E h \in Conns : ExceptSend(h)
    \/ \E h \in Conns : Finally(h)
    \/ \E h \in Conns : ClientClose(h)

SpecNoScheme == Init /\ [][NextNoScheme]_vars

\* ---- two sessions side by side ----
\* Two connections, of one user or of two, each of which may fail to connect,
\* lose a peer while relaying text, or finish.
PairConns == {1, 2}
PairHeaders ==
    { [scheme |-> "Bearer", token |-> "u1"], [scheme |-> "Bearer", token |-> "u2"] }

NextPair ==
    \/ \E h \in PairConns, headers \in PairHeaders : HandlerStart(h, headers)
    \/ \E h \in Conns : ConnectOK(h)
    \/ \E h \in Conns : ConnectFail(h, "OSError")
    \/ \E h \in Conns : ExceptSend(h)
    \/ \E h \in Conns : PumpClientToAzure(h)
    \/ \E h \in Conns : CountMessage(h)
    \/ \E h \in Conns : PumpAzureToClient(h)
    \/ \E h \in Conns : GatherReturns(h)
    \/ \E h \in Conns : Finally(h)
    \/ \E h \in Conns : ClientSend(h, "text")
    \/ \E h \in Conns : ClientClose(h)
    \/ \E h \in Conns : AzureClose(h)

SpecPair == Init /\ [][NextPair]_vars


\* ======================= the claims =======================

Connections(u) == GetOr(user_connections, u, {})

\* C1: for every identity, the number of sessions registered for it never
\* exceeds MAX_CONNECTIONS_PER_USER, under every interleaving of the
\* connection handlers (check_rate_limit and create_session run in one
\* stretch of the handler, with no await between them).
C1_ConnectionLimit ==
    \A u \in DOMAIN user_connections :
        Cardinality(user_connections[u]) <= MAX_CONNECTIONS_PER_USER

\* u1 holds all its slots and a further connection of u1 was turned away.
C1_Witness ==
    /\ Cardinality(Connections("u1")) = MAX_CONNECTIONS_PER_USER
    /\ \E h \in Conns : /\ user_id[h] = "u1"
                        /\ session_id[h] = 0
                        /\ close_code[h] = POLICY_VIOLATION
    /\ rl_last = [user |-> "u1", allowed |-> FALSE, reason |-> "connections"]

\* C2: for every identity and every time t, the allowed admissions whose
\* timestamp ts lies in the window ending at t (0 <= t - ts < RATE_LIMIT_WINDOW,
\* the test check_rate_limit applies) number at most MAX_REQUESTS_PER_MINUTE.
\* The count for a window ending at t only rises at t = ts, so the instants
\* to look at are the recorded timestamps and the current time.
WindowCount(u, t) ==
    Cardinality({ i \in 1..Len(admitted[u]) :
                    /\ admitted[u][i] <= t
                    /\ t - admitted[u][i] < RATE_LIMIT_WINDOW })

C2_RateWindow ==
    \A u \in DOMAIN admitted :
        \A t \in { admitted[u][i] : i \in 1..Len(admitted[u]) } \cup {now} :
            WindowCount(u, t) <= MAX_REQUESTS_PER_MINUTE

\* The window of u1 is full and a further call was rejected for the rate.
C2_Witness ==
    /\ "u1" \in DOMAIN admitted
    /\ WindowCount("u1", now) = MAX_REQUESTS_PER_MINUTE
    /\ rl_last = [user |-> "u1", allowed |-> FALSE, reason |-> "rate"]

\* C3: cleanup_session is idempotent: no call of it raises, no record is
\* deleted more than once, and the call the handler's finally block makes for
\* a session whose record was already deleted changes neither mapping.
C3_CleanupIdempotent ==
    [][ /\ ~cleanup_raised'
        /\ \A s \in Conns : removals'[s] <= 1
        /\ \A h \in Conns :
             ( /\ pc[h] = "finally"
               /\ pc'[h] = "done"
               /\ session_id[h] # 0
               /\ removals[session_id[h]] >= 1 )
             => /\ sessions' = sessions
                /\ user_connections' = user_connections
                /\ removals' = removals ]_vars

\* The janitor deleted the record first and the handler's finally block then
\* called cleanup_session for it again.
C3_Witness ==
    \E h \in Conns : /\ pc[h] = "done"
                     /\ session_id[h] \in janitor_removed
                     /\ removals[session_id[h]] = 1

\* C4: the two mappings agree in every state: s is a key of sessions with
\* user_id u exactly when s is a member of user_connections[u].
C4_MappingsAgree ==
    /\ \A s \in DOMAIN sessions : s \in Connections(sessions[s].user_id)
    /\ \A u \in DOMAIN user_connections :
           \A s \in user_connections[u] :
               s \in DOMAIN sessions /\ sessions[s].user_id = u

\* Sessions are registered while the finally block of one handler and the
\* janitor have each deleted a record.
C4_Witness ==
    /\ \E s \in DOMAIN sessions : s \in Connections(sessions[s].user_id)
    /\ \E s \in janitor_removed : removals[s] = 1
    /\ \E h \in Conns : /\ pc[h] = "done"
                        /\ session_id[h] # 0
                        /\ session_id[h] \notin janitor_removed
                        /\ removals[session_id[h]] = 1


\* The steps a streaming handler can take on its own, with no further event
\* from the client, the upstream or the clock.
HandlerStep(h) ==
    \/ PumpClientToAzure(h)
    \/ CountMessage(h)
    \/ PumpAzureToClient(h)
    \/ GatherReturns(h)

OnePumpReturned(h) ==
    /\ pc[h] = "streaming"
    /\ pump_c2a[h] \in {"closed", "error"} \/ pump_a2c[h] \in {"closed", "error"}

\* C5: once either pump has returned during Streaming, the handler goes on to
\* Closed by itself: in every such state it has a step of its own to take (the
\* other pump is cancelled), whatever the still-connected peer does.
C5_OtherPumpCancelled ==
    \A h \in Conns : OnePumpReturned(h) => ENABLED HandlerStep(h)

\* C6: a session the janitor has cleaned up is torn down like one closed by a
\* pump: its pumps no longer run and both its handles are closed.
C6_JanitorTearsDown ==
    \A h \in Conns :
        ( pc[h] = "streaming" /\ session_id[h] \in janitor_removed )
        => /\ pump_c2a[h] \in {"closed", "error"}
           /\ pump_a2c[h] \in {"closed", "error"}
           /\ client_state[h] # "open"
           /\ azure_state[h] # "open"

ErrorsReceived(h) == SelectSeq(client_rx[h], LAMBDA m : m.kind = "error")
ConnectFailed(h) == pc[h] = "done" /\ error[h] \in ConnectErrors
Unregistered(s) ==
    /\ s \notin DOMAIN sessions
    /\ \A u \in DOMAIN user_connections : s \notin user_connections[u]

\* C7 as stated: after a failed upstream connect the client has received
\* exactly one structured error message, its connection is closed and no
\* record of the session remains.
C7_ExactlyOneError ==
    \A h \in Conns :
        ConnectFailed(h) => /\ Len(ErrorsReceived(h)) = 1
                            /\ client_state[h] # "open"
                            /\ Unregistered(session_id[h])

\* C7 as amended: after a failed upstream connect the client has received at
\* most one message, the structured error, and exactly one unless the client
\* closed the connection itself; the connection is closed and no record of
\* the session remains.
C7_AtMostOneError ==
    \A h \in Conns :
        ConnectFailed(h) =>
            /\ client_rx[h] \in { << >>, << ErrorPayload(error[h]) >> }
            /\ client_state[h] = "server_closed" => Len(client_rx[h]) = 1
            /\ client_state[h] # "open"
            /\ close_code[h] = NORMAL_CLOSURE
            /\ Unregistered(session_id[h])

\* A failed connect whose error reached the client, and the handler finished.
C7_Witness ==
    \E h \in Conns : /\ ConnectFailed(h)
                     /\ error[h] = "InvalidStatusCode"
                     /\ client_rx[h] = << ErrorPayload("InvalidStatusCode") >>
                     /\ removals[session_id[h]] = 1

\* C8: a handler whose authentication fails or whose check_rate_limit call
\* rejects closes the client with code 1008 in that same step, leaving
\* sessions and user_connections as they were; it never creates a record
\* and never attempts an upstream connection.
C8_RejectBeforeSession ==
    [][ \A h \in Conns :
          /\ ( /\ pc[h] = "idle"
               /\ pc'[h] # "idle"
               /\ \/ user_id'[h] = ""
                  \/ rl_last'.user = user_id'[h] /\ ~rl_last'.allowed )
             => /\ sessions' = sessions
                /\ user_connections' = user_connections
                /\ close_code'[h] = POLICY_VIOLATION
                /\ client_state'[h] = "server_closed"
                /\ session_id'[h] = 0
          /\ ( pc[h] # "idle" /\ session_id[h] = 0 )
             => /\ session_id'[h] = 0
                /\ ~connect_attempted'[h]
                /\ h \notin DOMAIN sessions'
                /\ close_code'[h] = POLICY_VIOLATION ]_vars

\* One handler was rejected at authentication, another by check_rate_limit
\* for the request rate, and both have finished.
C8_Witness ==
    /\ \E h \in Conns : /\ pc[h] = "done"
                        /\ user_id[h] = ""
                        /\ close_code[h] = POLICY_VIOLATION
    /\ \E h \in Conns : /\ pc[h] = "done"
                        /\ user_id[h] = "u1"
                        /\ session_id[h] = 0
                        /\ close_code[h] = POLICY_VIOLATION
    /\ rl_last = [user |-> "u1", allowed |-> FALSE, reason |-> "rate"]

TextFrames(frames) == SelectSeq(frames, LAMBDA m : m.kind = "text")

\* C9 as stated: when the client of a streaming session has sent its frames
\* and disconnected, the message count reported at teardown is the number of
\* text frames it sent.
C9_CountIsFramesSent ==
    \A h \in Conns :
        ( /\ pc[h] = "done"
          /\ pump_c2a[h] # "none"
          /\ client_state[h] = "client_closed"
          /\ reported[h] # -1 )
        => reported[h] = Len(TextFrames(client_sent[h]))

\* Every text frame the client of h sent has been forwarded to the upstream.
AllTextForwarded(h) ==
    \A i \in 1..Len(client_sent[h]) :
        client_sent[h][i].kind = "text" => i <= Len(azure_rx[h])

\* C9 as amended.  While the record of a session exists its count is the
\* number of text frames forwarded to the upstream (binary frames never
\* count), less the one frame that has been sent and whose count the pump
\* has yet to raise.  A count is reported only at teardown, and only for a
\* session whose record the janitor has not removed; the count reported is
\* the number of text frames forwarded, which is never more than the number
\* of text frames the client sent and equals it exactly when every text
\* frame the client sent was forwarded.
C9_CountIsFramesForwarded ==
    \A h \in Conns :
        /\ session_id[h] \in DOMAIN sessions
           => sessions[session_id[h]].message_count
                = Len(TextFrames(azure_rx[h]))
                  - (IF pump_c2a[h] = "sent" THEN 1 ELSE 0)
        /\ pc[h] # "done" => reported[h] = -1
        /\ ( pc[h] = "done" /\ session_id[h] = 0 ) => reported[h] = -1
        /\ ( pc[h] = "done" /\ session_id[h] # 0 )
           => IF session_id[h] \in janitor_removed
              THEN reported[h] = -1
              ELSE /\ reported[h] = Len(TextFrames(azure_rx[h]))
                   /\ reported[h] <= Len(TextFrames(client_sent[h]))
                   /\ reported[h] = Len(TextFrames(client_sent[h]))
                      <=> AllTextForwarded(h)

\* The client sent a text and a binary frame and disconnected; both were
\* forwarded and the count reported at teardown is 1.
C9_Witness ==
    \E h \in Conns : /\ pc[h] = "done"
                     /\ client_state[h] = "client_closed"
                     /\ Len(azure_rx[h]) = 2
                     /\ Len(TextFrames(azure_rx[h])) = 1
                     /\ reported[h] = 1

IsPrefix(a, b) == Len(a) <= Len(b) /\ a = SubSeq(b, 1, Len(a))
Forwarded(h) == SelectSeq(client_rx[h], LAMBDA m : m.kind # "error")

SentIsPrefix(h) ==
    /\ IsPrefix(azure_rx[h], client_sent[h])
    /\ IsPrefix(Forwarded(h), azure_sent[h])

\* C10 as stated: in each direction what was sent on is a prefix of what the
\* source sent, and once teardown is complete every payload a pump took has
\* been sent on.
C10_AllTakenSent ==
    \A h \in Conns :
        /\ SentIsPrefix(h)
        /\ pc[h] = "done" => /\ Len(azure_rx[h]) = c2a_taken[h]
                             /\ Len(Forwarded(h)) = a2c_taken[h]

\* C10 as amended: in each direction what was sent on is a prefix of what the
\* source sent, and every payload a pump took has been sent on except the one
\* whose send failed on a closed destination, at which the pump returned.
C10_TakenSentUnlessClosed ==
    \A h \in Conns :
        /\ SentIsPrefix(h)
        /\ c2a_taken[h] - Len(azure_rx[h]) \in {0, 1}
        /\ c2a_taken[h] # Len(azure_rx[h])
           => pump_c2a[h] = "closed" /\ azure_state[h] # "open"
        /\ a2c_taken[h] - Len(Forwarded(h)) \in {0, 1}
        /\ a2c_taken[h] # Len(Forwarded(h))
           => pump_a2c[h] = "closed" /\ client_state[h] # "open"

\* Text and binary went upstream in the order sent, and downstream one frame
\* was forwarded and the next was lost on the closed client connection.
C10_Witness ==
    \E h \in Conns : /\ pc[h] = "done"
                     /\ Len(azure_rx[h]) = 2
                     /\ azure_rx[h][1].kind # azure_rx[h][2].kind
                     /\ Len(Forwarded(h)) = 1
                     /\ a2c_taken[h] = 2

\* C11: the janitor's scan selects a session created at T only once
\* now >= T + 3600: every session a turn of the janitor removes has that age,
\* and a session younger than 3600 seconds is never removed by the janitor.
C11_StaleOnlyAfterAge ==
    [][ /\ \A s \in janitor_removed' \ janitor_removed :
             /\ s \in DOMAIN sessions
             /\ now >= sessions[s].created_at + STALE_AGE
        /\ \A s \in DOMAIN sessions :
             now - sessions[s].created_at < STALE_AGE
             => s \notin janitor_removed' ]_vars

\* A turn of the janitor has just removed one session and left registered a
\* session that is exactly 3600 seconds old.
C11_Witness ==
    /\ janitor_slept_at = now
    /\ \E s \in janitor_removed : removals[s] = 1
    /\ \E y \in DOMAIN sessions : now - sessions[y].created_at = STALE_AGE

\* The outcome check_rate_limit would give u1 in the current state.
AdmissionNow(u) == CheckRateLimit(user_connections, user_requests, u, now)

\* The client of g has closed and the handler of g has taken every step it
\* can take by itself since.
ClientGone(g) ==
    /\ pc[g] = "streaming"
    /\ client_state[g] = "client_closed"
    /\ ~ENABLED HandlerStep(g)

\* C12: with three open sessions of an identity a further admission is
\* rejected for the concurrent connections, not for the rate; once the client
\* of one of those sessions has closed its connection, an admission attempt
\* of that identity is allowed.
C12_SlotFreedOnClientClose ==
    /\ Cardinality(Connections("u1")) = MAX_CONNECTIONS_PER_USER
       => /\ ~AdmissionNow("u1").allowed
          /\ AdmissionNow("u1").reason = "connections"
    /\ \A g \in Conns :
         ( user_id[g] = "u1" /\ ClientGone(g) ) => AdmissionNow("u1").allowed

\* The calls of u that were allowed within the window that ends at t.
InWindow(log, t) ==
    Cardinality({ i \in 1..Len(log) : t - log[i] < RATE_LIMIT_WINDOW })
Min(a, b) == IF a <= b THEN a ELSE b

\* C13: with no session registered, of the calls of check_rate_limit made
\* within one window of 60 seconds the first 60 are allowed and every further
\* one is rejected for the rate; once the window has passed, the next call is
\* allowed.  Each step is a run of n calls made at one instant, w being the
\* number of calls allowed earlier in the window.
C13_SixtyThenRejected ==
    [][ rl_calls' # rl_calls =>
        LET u == rl_last'.user
            w == InWindow(GetOr(admitted, u, << >>), now)
            x == InWindow(GetOr(admitted', u, << >>), now)
        IN /\ \E n \in BurstSizes :
                /\ x = Min(w + n, MAX_REQUESTS_PER_MINUTE)
                /\ rl_last'.allowed <=> (w + n <= MAX_REQUESTS_PER_MINUTE)
           /\ ~rl_last'.allowed => rl_last'.reason = "rate"
           /\ w = 0 => rl_last'.allowed ]_vars

\* 62 calls in four runs: 60 were allowed in one window, one was rejected,
\* and the call made after that window had passed was allowed.
C13_Witness ==
    /\ rl_calls = 4
    /\ "u1" \in DOMAIN admitted
    /\ Len(admitted["u1"]) = MAX_REQUESTS_PER_MINUTE + 1
    /\ admitted["u1"][Len(admitted["u1"])] = now
    /\ now - admitted["u1"][MAX_REQUESTS_PER_MINUTE] >= RATE_LIMIT_WINDOW
    /\ rl_last = [user |-> "u1", allowed |-> TRUE, reason |-> "OK"]

\* C14: every session that was created is closed exactly once: when its
\* handler has finished, its record has been removed exactly once and the
\* summary with its message count has been emitted, also when the janitor
\* removed the record before the handler's own teardown ran.
C14_ClosedOnceWithSummary ==
    \A h \in Conns :
        ( pc[h] = "done" /\ session_id[h] # 0 )
        => /\ removals[session_id[h]] = 1
           /\ reported[h] # -1

\* What the clients observe in a run of the deployment whose credential is
\* key: the frames and error payloads received and the close codes.
ClientObserves(key) ==
    [ h \in Conns |->
        [ frames |-> [ i \in 1..Len(client_rx[h]) |->
                         IF client_rx[h][i].kind = "error"
                         THEN ErrorText(client_rx[h][i].error,
                                        BuildAzureWebsocketUrl(EndpointNoScheme, key))
                         ELSE << client_rx[h][i].kind >> ],
          code |-> close_code[h] ] ]

\* C15: the upstream credential never flows into a payload sent to the
\* client: two runs that differ only in the credential give the clients the
\* same observations, the error payload of a failed upstream connect included.
C15_CredentialNotObserved ==
    \A k1, k2 \in ApiKeys : ClientObserves(k1) = ClientObserves(k2)

\* A step in which the session of handler h fails or is torn down: its
\* connect fails, one of its pumps ends, or its handler moves on to the except
\* block, the finally block or the end.
FailureStep(h) ==
    /\ pc[h] \in {"connecting", "except", "streaming", "finally"}
    /\ \/ pc'[h] # pc[h] /\ pc'[h] \in {"except", "finally", "done"}
       \/ pump_c2a'[h] # pump_c2a[h] /\ pump_c2a'[h] \in {"closed", "error"}
       \/ pump_a2c'[h] # pump_a2c[h] /\ pump_a2c'[h] \in {"closed", "error"}

\* C16: a failure inside one session leaves every other session's record and
\* message count, every user_connections set but for the membership of the
\* failing session, and every request log unchanged; the teardown of session
\* s removes the entry of s from sessions and s from the set of its own
\* identity, and changes nothing else.
C16_FailureIsolated ==
    [][ \A h \in Conns :
          FailureStep(h) =>
            /\ DOMAIN sessions' \subseteq DOMAIN sessions
            /\ \A s \in DOMAIN sessions \ {session_id[h]} :
                  s \in DOMAIN sessions' /\ sessions'[s] = sessions[s]
            /\ user_requests' = user_requests
            /\ DOMAIN user_connections' = DOMAIN user_connections
            /\ \A u \in DOMAIN user_connections :
                  IF u = user_id[h] /\ pc'[h] = "done"
                  THEN user_connections'[u] = user_connections[u] \ {session_id[h]}
                  ELSE user_connections'[u] = user_connections[u]
            /\ pc'[h] = "done" => session_id[h] \notin DOMAIN sessions' ]_vars

\* One session has failed and is gone while another session of the same
\* identity is still registered with a text frame counted.
C16_Witness ==
    \E h, g \in Conns :
        /\ h # g
        /\ pc[h] = "done"
        /\ session_id[h] # 0
        /\ removals[session_id[h]] = 1
        /\ user_id[g] = user_id[h]
        /\ session_id[g] \in DOMAIN sessions
        /\ sessions[session_id[g]].message_count = 1
        /\ session_id[g] \in Connections(user_id[g])

\* C17: proxy_client_to_azure ends only when the client connection closes or
\* a send to the upstream fails: while the handler is streaming with both
\* connections open the pump is still running, also after the janitor has
\* removed the session's record, so that every frame the client sends is
\* taken and forwarded.
C17_PumpEndsOnlyOnClosure ==
    \A h \in Conns :
        ( /\ pc[h] = "streaming"
          /\ client_state[h] = "open"
          /\ azure_state[h] = "open" )
        => pump_c2a[h] \in {"running", "sent"}

\* C18: when a pump has hit an unexpected error during streaming, the handler
\* sends the client a structured error payload before it closes the client
\* connection: a client that never closed the connection itself has received
\* one by the time the handler has finished.
C18_PumpErrorReported ==
    \A h \in Conns :
        ( /\ pc[h] = "done"
          /\ pump_c2a[h] = "error" \/ pump_a2c[h] = "error"
          /\ client_state[h] = "server_closed" )
        => Len(ErrorsReceived(h)) >= 1

\* The handlers of identity u that are relaying: admitted, not finished, and
\* with both the client and the upstream handle open.
Relaying(u) ==
    { h \in Conns : /\ user_id[h] = u
                    /\ session_id[h] # 0
                    /\ pc[h] = "streaming"
                    /\ client_state[h] = "open"
                    /\ azure_state[h] = "open" }

\* C19: for every identity the number of handlers that are still relaying
\* never exceeds MAX_CONNECTIONS_PER_USER, also after the janitor has swept
\* some of the identity's sessions.
C19_RelayingWithinLimit ==
    \A h \in Conns :
        Cardinality(Relaying(user_id[h])) <= MAX_CONNECTIONS_PER_USER

\* C20: a rejected admission consumes no budget.  In the step in which
\* handler h calls check_rate_limit for identity u: a rejection for the
\* connections leaves user_requests unchanged; a rejection for the rate
\* leaves in the log of u exactly its unexpired timestamps and appends none;
\* a timestamp is appended exactly when the call is allowed; no other
\* identity's log changes.
C20_RejectionConsumesNothing ==
    [][ \A h \in Conns :
          ( pc[h] = "idle" /\ pc'[h] # "idle" /\ user_id'[h] # "" ) =>
            LET u == user_id'[h]
                old == GetOr(user_requests, u, << >>)
                new == GetOr(user_requests', u, << >>)
                live == SelectSeq(old, LAMBDA ts : now - ts < RATE_LIMIT_WINDOW)
            IN /\ rl_last'.user = u
               /\ rl_last'.reason = "connections" => user_requests' = user_requests
               /\ rl_last'.reason = "rate" => new = live
               /\ rl_last'.allowed => new = Append(live, now)
               /\ ~rl_last'.allowed => rl_last'.reason \in {"connections", "rate"}
               /\ \A v \in DOMAIN user_requests \ {u} :
                     v \in DOMAIN user_requests'
                     /\ user_requests'[v] = user_requests[v] ]_vars

\* A connection of u1 was rejected while the window was full; after the
\* window had passed another was allowed, and the log of u1 holds the
\* timestamp of that admission alone.
C20_Witness ==
    /\ "u1" \in DOMAIN user_requests
    /\ "u1" \in DOMAIN admitted
    /\ user_requests["u1"] = << now >>
    /\ Len(admitted["u1"]) = MAX_REQUESTS_PER_MINUTE + 1
    /\ \E h, g \in Conns : /\ h < g
                           /\ user_id[h] = "u1" /\ pc[h] # "idle"
                           /\ session_id[h] = 0
                           /\ user_id[g] = "u1" /\ session_id[g] = g

====
